---------------------------- MODULE Spec2Model ----------------------------
(***************************************************************************)
(* A model of the heart-rate heatmap service (package app):                *)
(*   hr_ingest.py       samples -> Day Vector -> Day Table                 *)
(*   heatmap_render.py  Day Table -> Color Scale -> Raster Image           *)
(*   pivot_builder.py / garmin_client.py   fetching the trailing window    *)
(*   orchestrator.py / main.py             the pipeline and its triggers   *)
(*                                                                         *)
(* Real numbers (numpy float64) are modelled as exact rationals <<n, d>>   *)
(* in lowest terms with d > 0; numpy's nan is <<0, 0>>.                    *)
(***************************************************************************)
EXTENDS Integers, Sequences, FiniteSets

VARIABLES
    settings,     \* config.settings, the process-wide Settings instance
    samples,      \* build_daily_minute_series: the argument `samples`
    max_gap,      \* build_daily_minute_series: the argument `max_gap`
    arr_interp,   \* build_daily_minute_series: the returned array (<<>>: not called)
    garmin,       \* Garmin Connect: date -> the heartRateValues it answers with
    today,        \* date.today(), as a day ordinal
    table_pc,     \* build_table_for_last_n_days: where the call stands
    current,      \* fetch_range_hr: the loop variable `current`
    daily_data,   \* fetch_range_hr: the dict `result`, then `daily_data`
    table,        \* build_table_for_last_n_days: the returned (matrix, dates)
    matrix,       \* calculate_color_scale / render_heatmap_image: the argument
    scale,        \* calculate_color_scale: the returned (vmin, vmax)
    image,        \* render_heatmap_image: the returned image, or the error raised
    task_pc,      \* main.py: where each coroutine of the event loop stands
    run_local,    \* run_full_pipeline: each caller's run number, matrix and dates
    files,        \* settings.output_dir: the CSV, the PNG and meta.json
    runs          \* how many times run_full_pipeline was entered

seriesVars == <<samples, max_gap, arr_interp>>
tableVars == <<garmin, today, table_pc, current, daily_data, table>>
renderVars == <<matrix, scale, image>>
serviceVars == <<task_pc, run_local, files, runs>>
vars == <<settings, seriesVars, tableVars, renderVars, serviceVars>>

----------------------------------------------------------------------------
(* Bounds of the model and constants of the program *)

MaxSamples == 3          \* longest sample list handed to the Minute Aggregator
MaxDays == 3             \* largest trailing window (settings.trailing_days)
MaxCols == 2             \* widest matrix handed to the Color Scale Resolver
MaxWidth == 3            \* largest settings.image_width besides the default
MaxRuns == 3             \* pipeline runs followed in one behaviour
MinutesPerDay == 1440    \* np.full(1440, ...)
DefaultMaxGap == 10      \* max_gap: int = 10

Slots == 0 .. (MinutesPerDay - 1)

\* Python's None, and an Optional value v as <<v>>
None == <<>>

\* a result variable before the call returns
NotCalled == <<>>

----------------------------------------------------------------------------
(* Exact rational arithmetic standing for float64 *)

Abs(i) == IF i < 0 THEN -i ELSE i

RECURSIVE GCD(_, _)
GCD(a, b) == IF b = 0 THEN a ELSE GCD(b, a % b)

NaN == <<0, 0>>
IsNaN(x) == x[2] = 0

Rat(n, d) ==
    LET g == GCD(Abs(n), Abs(d))
        s == IF d < 0 THEN -1 ELSE 1
    IN  <<(s * n) \div g, (s * d) \div g>>

RInt(i) == <<i, 1>>
Zero == RInt(0)
RAdd(x, y) == Rat(x[1] * y[2] + y[1] * x[2], x[2] * y[2])
RSub(x, y) == Rat(x[1] * y[2] - y[1] * x[2], x[2] * y[2])
RMul(x, y) == Rat(x[1] * y[1], x[2] * y[2])
RLess(x, y) == x[1] * y[2] < y[1] * x[2]
RLeq(x, y) == x[1] * y[2] <= y[1] * x[2]

RECURSIVE SumSeq(_)
SumSeq(s) == IF s = <<>> THEN 0 ELSE Head(s) + SumSeq(Tail(s))

\* the last value appended for the minute, in place of the mean
LastValue(vals) == RInt(vals[Len(vals)])

\* np.mean(vals) of a non-empty list of ints
Mean(vals) == Rat(SumSeq(vals), Len(vals))

----------------------------------------------------------------------------
(* hr_ingest.samples_to_local_minutes *)

\* A sample is [timestamp |-> seconds since the epoch (UTC), hr |-> int].
\* settings.tz is modelled as a fixed offset from UTC, in seconds.
minute_of_day(s) ==
    LET local_ts == s.timestamp + settings.tz
        floored == local_ts - (local_ts % 60)
        hour == (floored \div 3600) % 24
        minute == (floored \div 60) % 60
    IN  hour * 60 + minute

RECURSIVE HrAt(_, _)
HrAt(smp, m) ==
    IF smp = <<>> THEN <<>>
    ELSE IF minute_of_day(Head(smp)) = m
         THEN <<Head(smp).hr>> \o HrAt(Tail(smp), m)
         ELSE HrAt(Tail(smp), m)

samples_to_local_minutes(smp) ==
    [m \in {minute_of_day(smp[i]) : i \in DOMAIN smp} |-> HrAt(smp, m)]

----------------------------------------------------------------------------
(* pandas.Series.interpolate(method="linear", limit, limit_direction="both") *)

Valid(arr) == {i \in DOMAIN arr : ~IsNaN(arr[i])}

\* limit_direction="forward": only a valid value before the NaN reaches it
LimitReachForward(valid, i, limit) ==
    \E j \in valid : j < i /\ i - j <= limit

\* A NaN is left alone when no valid value lies within `limit` positions of
\* it, before or after.
LimitReach(valid, i, limit) ==
    \E j \in valid : j # i /\ Abs(j - i) <= limit

\* np.interp: the straight line between the neighbouring valid points, and
\* the first (last) valid value before (after) all of them.
NpInterp(arr, valid, i) ==
    LET before == {j \in valid : j < i}
        after == {j \in valid : j > i}
        a == CHOOSE j \in before : \A k \in before : k <= j
        b == CHOOSE j \in after : \A k \in after : j <= k
    IN  IF before = {} THEN arr[b]
        ELSE IF after = {} THEN arr[a]
        ELSE RAdd(arr[a], RMul(RSub(arr[b], arr[a]), Rat(i - a, b - a)))

interpolate(arr, limit) ==
    LET valid == Valid(arr)
    IN  [i \in DOMAIN arr |->
            IF i \in valid THEN arr[i]
            ELSE IF valid # {} /\ LimitReach(valid, i, limit)
                 THEN NpInterp(arr, valid, i)
                 ELSE NaN]

\* np.nan_to_num(arr, nan=0.0)
nan_to_num(arr) == [i \in DOMAIN arr |-> IF IsNaN(arr[i]) THEN Zero ELSE arr[i]]

----------------------------------------------------------------------------
(* hr_ingest.build_daily_minute_series *)

MeanArr(smp) ==
    LET minute_map == samples_to_local_minutes(smp)
    IN  [m \in Slots |->
            IF m \in DOMAIN minute_map /\ minute_map[m] # <<>>
            THEN Mean(minute_map[m]) ELSE NaN]

build_daily_minute_series(smp, gap) ==
    nan_to_num(interpolate(MeanArr(smp), gap))

----------------------------------------------------------------------------
(* garmin_client.GarminClient.fetch_daily_hr / fetch_range_hr *)

\* One entry of heartRateValues is [ts_ms, bpm]; bpm may be null (None).
\* Entries with a null bpm are skipped, the others become Samples.
RECURSIVE fetch_daily_hr(_)
fetch_daily_hr(values) ==
    IF values = <<>> THEN <<>>
    ELSE LET entry == Head(values)
         IN  IF entry.bpm = None
             THEN fetch_daily_hr(Tail(values))
             ELSE <<[timestamp |-> entry.ts_ms \div 1000, hr |-> entry.bpm[1]]>>
                  \o fetch_daily_hr(Tail(values))

\* `while current <= end`, missing the last day
RangeContinuesExclusive(cur, end) == cur < end

\* `while current <= end`
RangeContinues(cur, end) == cur <= end

----------------------------------------------------------------------------
(* hr_ingest.build_daily_table *)

RECURSIVE sorted(_)
sorted(S) ==
    IF S = {} THEN <<>>
    ELSE LET first == CHOOSE d \in S : \A e \in S : d <= e
         IN  <<first>> \o sorted(S \ {first})

\* np.column_stack(cols): row m holds the m-th entry of every column
column_stack(cols) == [m \in Slots |-> [i \in 1 .. Len(cols) |-> cols[i][m]]]

\* np.zeros((1440, 0))
EmptyTable == [m \in Slots |-> <<>>]

build_daily_table(data) ==
    LET sorted_dates == sorted(DOMAIN data)
        cols == [i \in 1 .. Len(sorted_dates) |->
                    build_daily_minute_series(data[sorted_dates[i]], DefaultMaxGap)]
    IN  IF Len(cols) = 0
        THEN [matrix |-> EmptyTable, dates |-> <<>>]
        ELSE [matrix |-> column_stack(cols), dates |-> sorted_dates]

----------------------------------------------------------------------------
(* heatmap_render._prepare_data_for_color / calculate_color_scale *)

\* A matrix is a function from its row indices to the sequence of the row's
\* entries (numpy's 2-D array, row-major).
NRows(mat) == Cardinality(DOMAIN mat)
NCols(mat) == IF DOMAIN mat = {} THEN 0 ELSE Len(mat[CHOOSE r \in DOMAIN mat : TRUE])
Cells(mat) == {<<r, c>> : r \in DOMAIN mat, c \in 1 .. NCols(mat)}

\* `data[data < 0] = np.nan`: a 0 is kept as a measurement
PrepareKeepingZero(mat) ==
    [r \in DOMAIN mat |-> [c \in DOMAIN mat[r] |->
        IF ~IsNaN(mat[r][c]) /\ RLess(mat[r][c], Zero) THEN NaN ELSE mat[r][c]]]

\* data = matrix.astype(float); data[data <= 0] = np.nan
_prepare_data_for_color(mat) ==
    [r \in DOMAIN mat |-> [c \in DOMAIN mat[r] |->
        IF ~IsNaN(mat[r][c]) /\ RLeq(mat[r][c], Zero) THEN NaN ELSE mat[r][c]]]

\* finite = data[np.isfinite(data)], as a bag: value -> number of cells
Finite(data) ==
    LET cells == Cells(data)
        values == {data[rc[1]][rc[2]] : rc \in cells} \ {NaN}
    IN  [v \in values |-> Cardinality({rc \in cells : data[rc[1]][rc[2]] = v})]

RECURSIVE BagSize(_)
BagSize(bag) ==
    IF DOMAIN bag = {} THEN 0
    ELSE LET v == CHOOSE w \in DOMAIN bag : TRUE
         IN  bag[v] + BagSize([w \in DOMAIN bag \ {v} |-> bag[w]])

\* the k-th entry (from 0) of the bag's values in ascending order
Kth(bag, k) ==
    LET below(v) == BagSize([w \in {u \in DOMAIN bag : RLess(u, v)} |-> bag[w]])
    IN  CHOOSE v \in DOMAIN bag : below(v) <= k /\ k < below(v) + bag[v]

\* np.nanpercentile(finite, q): linear interpolation between the two entries
\* around position q/100 * (n - 1)
nanpercentile(bag, q) ==
    LET n == BagSize(bag)
        pos == q * (n - 1)
        lo == pos \div 100
        hi == IF lo + 1 < n THEN lo + 1 ELSE lo
    IN  RAdd(Kth(bag, lo),
             RMul(RSub(Kth(bag, hi), Kth(bag, lo)), Rat(pos % 100, 100)))

nanmin(bag) == CHOOSE v \in DOMAIN bag : \A w \in DOMAIN bag : RLeq(v, w)
nanmax(bag) == CHOOSE v \in DOMAIN bag : \A w \in DOMAIN bag : RLeq(w, v)

\* the fallback without its last step
NoWiden(vmin, vmax) == <<vmin, vmax>>

\* if vmin == vmax: vmin, vmax = vmin - 1.0, vmax + 1.0
Widen(vmin, vmax) ==
    IF vmin = vmax THEN <<RSub(vmin, RInt(1)), RAdd(vmax, RInt(1))>>
    ELSE <<vmin, vmax>>

calculate_color_scale(mat) ==
    LET data == _prepare_data_for_color(mat)
        finite == Finite(data)
        vmin == nanpercentile(finite, 1)
        vmax == nanpercentile(finite, 99)
    IN  IF BagSize(finite) = 0 THEN <<Zero, RInt(1)>>
        ELSE IF settings.hr_min # None /\ settings.hr_max # None
             THEN <<settings.hr_min[1], settings.hr_max[1]>>
        ELSE IF vmin = vmax THEN Widen(nanmin(finite), nanmax(finite))
        ELSE <<vmin, vmax>>

----------------------------------------------------------------------------
(* heatmap_render.get_colormap and the colour mapping *)

Black == <<0, 0, 0>>
White == <<255, 255, 255>>

RDiv(x, y) == Rat(x[1] * y[2], x[2] * y[1])

\* Python's round(p / q) for p >= 0, q > 0: to the nearest, a tie to the even
Round(p, q) ==
    LET f == p \div q
        r == p % q
    IN  IF 2 * r < q THEN f
        ELSE IF 2 * r > q THEN f + 1
        ELSE IF f % 2 = 0 THEN f ELSE f + 1

\* the names get_colormap turns into the custom gradient
CatppuccinNames == {"catppuccin-mocha", "catppuccin_mocha", "catppuccin"}

\* the nine anchors "#11111b" ... "#f38ba8" as RGB bytes
CatppuccinColors ==
    << <<17, 17, 27>>, <<30, 30, 46>>, <<49, 50, 68>>, <<137, 180, 250>>,
       <<148, 226, 213>>, <<166, 227, 161>>, <<249, 226, 175>>,
       <<250, 179, 135>>, <<243, 139, 168>> >>

\* the names cm.get_cmap knows, here matplotlib's linear black-to-white map
LibraryColormaps == {"gray"}

KnownColormap(name) == name \in CatppuccinNames \cup LibraryColormaps

\* entry i (0..255) of the colormap's 256-entry table, as uint8 RGB:
\* LinearSegmentedColormap.from_list spreads the anchors evenly over [0, 1]
Gradient(name, i) ==
    IF name \in CatppuccinNames
    THEN LET segs == Len(CatppuccinColors) - 1
             seg == IF i = 255 THEN segs - 1 ELSE (segs * i) \div 255
             t == segs * i - 255 * seg
             from == CatppuccinColors[seg + 1]
             to == CatppuccinColors[seg + 2]
         IN  [ch \in 1 .. 3 |-> (from[ch] * 255 + (to[ch] - from[ch]) * t) \div 255]
    ELSE <<i, i, i>>

\* mcolors.Normalize(vmin, vmax, clip=True)(v): 0 for a zero-width range
Normalize(v, vmin, vmax) ==
    IF vmin = vmax THEN Zero
    ELSE LET x == RDiv(RSub(v, vmin), RSub(vmax, vmin))
         IN  IF RLess(x, Zero) THEN Zero
             ELSE IF RLess(RInt(1), x) THEN RInt(1)
             ELSE x

\* Colormap.__call__: int(x * 256), the top entry for x = 1
LutIndex(x) ==
    LET i == (x[1] * 256) \div x[2]
    IN  IF i > 255 THEN 255 ELSE i

----------------------------------------------------------------------------
(* heatmap_render.render_heatmap_image *)

\* y = round(h * H / 24)
HourLineY(h, H) == Round(h * H, 24)

\* x = round(i * W / n_days)
DayLineX(i, W, n_days) == Round(i * W, n_days)

\* An image is [size |-> <<W, H>>, rgb |-> the one-pixel-per-minute grid the
\* resize samples, hour_rows / day_cols |-> the rows and columns draw.line
\* painted]; ImageDraw clips a line that lies outside the image.
getpixel(img, x, y) ==
    IF y \in img.hour_rows \/ x \in img.day_cols THEN White
    ELSE LET src_y == ((2 * y + 1) * MinutesPerDay) \div (2 * img.size[2])
             src_x == ((2 * x + 1) * Len(img.rgb[0])) \div (2 * img.size[1])
         IN  img.rgb[src_y][src_x + 1]

ValueError == [error |-> "ValueError"]

render_heatmap_image(mat) ==
    LET n_days == NCols(mat)
        data == _prepare_data_for_color(mat)
        name == settings.colormap
        W == settings.image_width
        H == settings.image_height
        \* cmap(norm(data)) with the scale vmin, vmax = sc, then the lines
        Paint(sc) ==
            IF ~KnownColormap(name) THEN ValueError
            ELSE IF RLess(sc[2], sc[1]) THEN ValueError
            ELSE [size |-> <<W, H>>,
                  rgb |-> [r \in DOMAIN data |-> [c \in DOMAIN data[r] |->
                              IF IsNaN(data[r][c]) THEN Black
                              ELSE Gradient(name,
                                       LutIndex(Normalize(data[r][c], sc[1], sc[2])))]],
                  hour_rows |-> IF settings.draw_hour_lines
                                THEN {HourLineY(h, H) : h \in 0 .. 24} \cap (0 .. (H - 1))
                                ELSE {},
                  day_cols |-> IF settings.draw_day_lines /\ n_days > 1
                               THEN {DayLineX(i, W, n_days) : i \in 1 .. (n_days - 1)}
                                        \cap (0 .. (W - 1))
                               ELSE {}]
    IN  IF NRows(mat) # MinutesPerDay THEN ValueError
        \* vmin, vmax = calculate_color_scale(data), computed once per image
        ELSE CHOOSE img \in {Paint(sc) : sc \in {calculate_color_scale(data)}} : TRUE

----------------------------------------------------------------------------
(* Inputs of the Minute Aggregator *)

\* Heart-rate readings of one day: minute 0, 10, 15 (twice), 30 and 23:59.
SamplePool ==
    { [timestamp |-> 5, hr |-> 60],
      [timestamp |-> 600, hr |-> 60],
      [timestamp |-> 930, hr |-> 70],
      [timestamp |-> 959, hr |-> 72],
      [timestamp |-> 1800, hr |-> 80],
      [timestamp |-> 86399, hr |-> 90] }

SampleLists == UNION {[1 .. n -> SamplePool] : n \in 0 .. MaxSamples}

\* max_gap values tried: the default and one short limit
MaxGaps == {4, DefaultMaxGap}

\* settings.tz as seconds east of UTC: UTC and UTC+05:30
TzOffsets == {0, 19800}

\* Settings() with no environment variable set, the time zone as an offset
DefaultSettings ==
    [tz |-> 0, trailing_days |-> 92, colormap |-> "turbo",
     image_width |-> 920, image_height |-> 1440,
     hr_min |-> None, hr_max |-> None,
     draw_hour_lines |-> TRUE, draw_day_lines |-> TRUE]

IdleTable ==
    /\ garmin = <<>> /\ today = 0 /\ table_pc = "idle"
    /\ current = None /\ daily_data = <<>> /\ table = NotCalled

IdleRender == matrix = <<>> /\ scale = NotCalled /\ image = NotCalled

IdleService == task_pc = <<>> /\ run_local = <<>> /\ files = <<>> /\ runs = 0

InitSeries ==
    /\ IdleTable /\ IdleRender /\ IdleService
    /\ settings \in {[DefaultSettings EXCEPT !.tz = z] : z \in TzOffsets}
    /\ samples \in SampleLists
    /\ max_gap \in MaxGaps
    /\ arr_interp = NotCalled

BuildDailyMinuteSeries ==
    /\ arr_interp = NotCalled
    /\ arr_interp' = build_daily_minute_series(samples, max_gap)
    /\ UNCHANGED <<settings, samples, max_gap, tableVars, renderVars, serviceVars>>

NextSeries == BuildDailyMinuteSeries

SpecSeries == InitSeries /\ [][NextSeries]_vars

----------------------------------------------------------------------------
(* pivot_builder.build_table_for_last_n_days, one call *)

Today == 20

\* What Garmin Connect answers for one day: nothing, one reading at 00:10
\* UTC, or a reading at 00:00:05, a null reading and a reading at 00:30.
RawDays ==
    { <<>>,
      <<[ts_ms |-> 600000, bpm |-> <<60>>]>>,
      <<[ts_ms |-> 5250, bpm |-> <<60>>], [ts_ms |-> 900000, bpm |-> None],
        [ts_ms |-> 1800000, bpm |-> <<80>>]>> }

StartDay == today - (settings.trailing_days - 1)

IdleSeries == samples = <<>> /\ max_gap = DefaultMaxGap /\ arr_interp = NotCalled

InitTable ==
    /\ IdleSeries /\ IdleRender /\ IdleService
    /\ settings \in {[DefaultSettings EXCEPT !.trailing_days = n] : n \in 0 .. MaxDays}
    /\ today = Today
    /\ garmin \in [StartDay .. today -> RawDays]
    /\ table_pc = "call"
    /\ current = None /\ daily_data = <<>> /\ table = NotCalled

\* client.fetch_range_hr(start, today): result = {}; current = start
FetchRangeBegin ==
    /\ table_pc = "call"
    /\ table_pc' = "fetch"
    /\ current' = StartDay
    /\ daily_data' = <<>>
    /\ UNCHANGED <<settings, seriesVars, garmin, today, table, renderVars, serviceVars>>

\* one turn of the loop: result[current] = self.fetch_daily_hr(current)
FetchDay ==
    /\ table_pc = "fetch"
    /\ RangeContinues(current, today)
    /\ daily_data' = [d \in DOMAIN daily_data \cup {current} |->
                         IF d = current THEN fetch_daily_hr(garmin[current])
                         ELSE daily_data[d]]
    /\ current' = current + 1
    /\ UNCHANGED <<settings, seriesVars, garmin, today, table_pc, table, renderVars, serviceVars>>

\* client.get_heart_rates raises (connection, rate limit): the call ends
FetchRaises ==
    /\ table_pc = "fetch"
    /\ RangeContinues(current, today)
    /\ table_pc' = "raised"
    /\ UNCHANGED <<settings, seriesVars, garmin, today, current, daily_data, table, renderVars, serviceVars>>

\* the loop ends: matrix, dates = build_daily_table(daily_data); return
BuildTable ==
    /\ table_pc = "fetch"
    /\ ~RangeContinues(current, today)
    /\ table' = build_daily_table(daily_data)
    /\ table_pc' = "returned"
    /\ UNCHANGED <<settings, seriesVars, garmin, today, current, daily_data, renderVars, serviceVars>>

NextTable == FetchRangeBegin \/ FetchDay \/ FetchRaises \/ BuildTable

SpecTable == InitTable /\ [][NextTable]_vars

----------------------------------------------------------------------------
(* heatmap_render.calculate_color_scale, one call *)

\* A matrix of `rows` rows and n columns that holds `mid` everywhere but in
\* its first column, whose first k entries are `low` and last j are `high`.
PatternMatrix(rows, n, low, k, mid, high, j) ==
    [r \in 0 .. (rows - 1) |-> [c \in 1 .. n |->
        IF c = 1 /\ r < k THEN low
        ELSE IF c = 1 /\ r >= rows - j THEN high
        ELSE mid]]

\* how many entries of the first column differ: none, one (under 1% of a
\* column) or twenty (over 1%)
OutlierCounts == {0, 1, 20}

ScaleMatrices ==
    {PatternMatrix(MinutesPerDay, n, low, k, mid, RInt(190), j) :
        n \in 0 .. MaxCols, low \in {NaN, RInt(-5), RInt(50)},
        k \in OutlierCounts, mid \in {Zero, RInt(70)}, j \in OutlierCounts}

\* HR_MIN / HR_MAX: unset, both set, only one set
Overrides == {<<None, None>>, <<<<RInt(40)>>, <<RInt(180)>>>>, <<<<RInt(40)>>, None>>}

InitScale ==
    /\ IdleSeries /\ IdleTable /\ IdleService
    /\ settings \in {[DefaultSettings EXCEPT !.hr_min = o[1], !.hr_max = o[2]] :
                        o \in Overrides}
    /\ matrix \in ScaleMatrices
    /\ scale = NotCalled /\ image = NotCalled

CalculateColorScale ==
    /\ scale = NotCalled
    /\ scale' = calculate_color_scale(matrix)
    /\ UNCHANGED <<settings, seriesVars, tableVars, matrix, image, serviceVars>>

NextScale == CalculateColorScale

SpecScale == InitScale /\ [][NextScale]_vars

----------------------------------------------------------------------------
(* heatmap_render.render_heatmap_image, one call *)

ZeroMatrix(rows, n) == PatternMatrix(rows, n, Zero, 0, Zero, Zero, 0)

\* 1440-row matrices without data, and two of another height
EmptyMatrices ==
    {ZeroMatrix(MinutesPerDay, n) : n \in 1 .. MaxCols}
    \cup {ZeroMatrix(MinutesPerDay - 1, 1), ZeroMatrix(MinutesPerDay + 1, 1)}

\* 1440-row matrices with data: 70 everywhere but for twenty 50s and 190s
DataMatrices ==
    {PatternMatrix(MinutesPerDay, n, RInt(50), 20, RInt(70), RInt(190), 20) :
        n \in 1 .. MaxCols}

Heights == {12, 25}
Colormaps == {"catppuccin-mocha", "gray", "no-such-map"}
Booleans == {TRUE, FALSE}

\* every output size, gradient and choice of separators
LayoutSettings ==
    {[DefaultSettings EXCEPT !.image_width = w, !.image_height = h,
                             !.colormap = cm, !.draw_hour_lines = hl,
                             !.draw_day_lines = dl] :
        w \in 1 .. MaxWidth, h \in Heights, cm \in Colormaps,
        hl \in Booleans, dl \in Booleans}

\* every gradient, with and without the fixed range, at one output size
ColorSettings ==
    {[DefaultSettings EXCEPT !.image_width = MaxWidth, !.image_height = 12,
                             !.colormap = cm, !.hr_min = o[1], !.hr_max = o[2]] :
        cm \in Colormaps, o \in {<<None, None>>, <<<<RInt(40)>>, <<RInt(180)>>>>}}

\* the default 920 x 1440 output for the default window of 92 days
DefaultRenderSettings == [DefaultSettings EXCEPT !.colormap = "gray"]

InitRender ==
    /\ IdleSeries /\ IdleTable /\ IdleService
    /\ \/ settings \in LayoutSettings /\ matrix \in EmptyMatrices
       \/ settings \in ColorSettings /\ matrix \in DataMatrices
       \/ /\ settings = DefaultRenderSettings
          /\ matrix = ZeroMatrix(MinutesPerDay, DefaultSettings.trailing_days)
    /\ scale = NotCalled /\ image = NotCalled

RenderHeatmapImage ==
    /\ image = NotCalled
    /\ image' = render_heatmap_image(matrix)
    /\ UNCHANGED <<settings, seriesVars, tableVars, matrix, scale, serviceVars>>

NextRender == RenderHeatmapImage

SpecRender == InitRender /\ [][NextRender]_vars

----------------------------------------------------------------------------
(* orchestrator.run_full_pipeline and its three callers in main.py *)

\* GarminClient.fetch_range_hr(start, end), the whole loop
fetch_range_hr(start, end) ==
    [d \in {e \in start .. end : RangeContinues(e, end)} |-> fetch_daily_hr(garmin[d])]

\* pivot_builder.build_table_for_last_n_days
build_table_for_last_n_days == build_daily_table(fetch_range_hr(StartDay, today))

\* pivot_builder.write_pivot_csv reads matrix[minute, :] for minute 0..1439
CsvRowsReadable(mat) == \A minute \in Slots : minute \in DOMAIN mat

\* A file is absent, or holds what run `run` wrote: all of it ("complete")
\* or what was written before the write raised ("partial").
Absent == [state |-> "absent", run |-> 0]
Written(st, k) == [state |-> st, run |-> k]

\* orchestrator.load_status: the defaults when meta.json is missing, what the
\* file holds when it parses, and json.load's error on a truncated file
load_status(meta) ==
    IF meta = Absent THEN [last_run |-> None]
    ELSE IF meta.state = "partial" THEN [error |-> "JSONDecodeError"]
    ELSE [last_run |-> <<meta.run>>]

\* scheduler_loop, GET /heatmap.png and POST /force-rebuild
Tasks == {"scheduler", "heatmap", "rebuild"}
Handlers == {"heatmap", "rebuild"}

PipelineSteps == {"build", "csv", "png", "meta"}

\* A coroutine that is not executing: not yet scheduled, waiting for its
\* request, or inside `await asyncio.sleep`.
Suspended(t) == task_pc[t] \in {"start", "idle", "pending", "sleep"}

\* `def` endpoints, which FastAPI runs in a thread pool beside the loop
LoopFreeThreaded == TRUE

\* The event loop resumes a coroutine only when no other one is executing:
\* the handlers and scheduler_loop are `async def`, and run_full_pipeline,
\* called without await, never yields to the loop.
LoopFree == \A u \in Tasks : Suspended(u)

\* where the caller goes on after run_full_pipeline returned or raised: the
\* scheduler into its sleep, a handler back to waiting after its response
Resume(t) == IF t = "scheduler" THEN "sleep" ELSE "idle"

NoRun == [run |-> 0, table |-> None]

ServiceSettings ==
    {[DefaultSettings EXCEPT !.trailing_days = 1, !.colormap = cm] :
        cm \in {"gray", "no-such-map"}}

Init ==
    /\ IdleSeries /\ IdleRender
    /\ settings \in ServiceSettings
    /\ today = Today
    /\ garmin \in [StartDay .. today -> RawDays]
    /\ table_pc = "idle" /\ current = None /\ daily_data = <<>> /\ table = NotCalled
    /\ task_pc = [t \in Tasks |-> IF t = "scheduler" THEN "start" ELSE "idle"]
    /\ run_local = [t \in Tasks |-> NoRun]
    /\ files \in {[csv |-> f, png |-> f, meta |-> f] : f \in {Absent, Written("complete", 0)}}
    /\ runs = 0

Frame == UNCHANGED <<settings, seriesVars, tableVars, renderVars>>

\* run_full_pipeline is entered: Path(output_dir).mkdir(exist_ok=True)
EnterRun(t) ==
    /\ runs < MaxRuns
    /\ runs' = runs + 1
    /\ task_pc' = [task_pc EXCEPT ![t] = "build"]
    /\ run_local' = [run_local EXCEPT ![t] = [run |-> runs + 1, table |-> None]]
    /\ UNCHANGED files

\* no try/except around run_full_pipeline(): the exception ends the
\* scheduler's task
RaiseUncaught(t) ==
    /\ task_pc' = [task_pc EXCEPT ![t] = IF t = "scheduler" THEN "stopped" ELSE "idle"]
    /\ run_local' = [run_local EXCEPT ![t] = NoRun]

\* the exception leaves run_full_pipeline and is caught by its caller
Raise(t) ==
    /\ task_pc' = [task_pc EXCEPT ![t] = Resume(t)]
    /\ run_local' = [run_local EXCEPT ![t] = NoRun]

\* asyncio.create_task(scheduler_loop()): the initial run
SchedulerStart ==
    /\ task_pc["scheduler"] = "start" /\ LoopFree
    /\ EnterRun("scheduler")
    /\ Frame

\* await asyncio.sleep(...) is over: the daily run
SchedulerWake ==
    /\ task_pc["scheduler"] = "sleep" /\ LoopFree
    /\ EnterRun("scheduler")
    /\ Frame

\* a client sends GET /heatmap.png or POST /force-rebuild
Request(t) ==
    /\ t \in Handlers /\ task_pc[t] = "idle"
    /\ task_pc' = [task_pc EXCEPT ![t] = "pending"]
    /\ UNCHANGED <<run_local, files, runs>>
    /\ Frame

\* get_heatmap, the PNG exists: FileResponse
HeatmapServe ==
    /\ task_pc["heatmap"] = "pending" /\ LoopFree
    /\ files.png # Absent
    /\ task_pc' = [task_pc EXCEPT !["heatmap"] = "idle"]
    /\ UNCHANGED <<run_local, files, runs>>
    /\ Frame

\* get_heatmap, the PNG is missing: run_full_pipeline()
HeatmapRebuild ==
    /\ task_pc["heatmap"] = "pending" /\ LoopFree
    /\ files.png = Absent
    /\ EnterRun("heatmap")
    /\ Frame

\* force_rebuild: run_full_pipeline()
ForceRebuild ==
    /\ task_pc["rebuild"] = "pending" /\ LoopFree
    /\ EnterRun("rebuild")
    /\ Frame

\* 1. matrix, dates = build_table_for_last_n_days(...)
BuildStep(t) ==
    /\ task_pc[t] = "build"
    /\ task_pc' = [task_pc EXCEPT ![t] = "csv"]
    /\ run_local' = [run_local EXCEPT ![t].table = build_table_for_last_n_days]
    /\ UNCHANGED <<files, runs>>
    /\ Frame

\* 1. client.login() or client.get_heart_rates raises
BuildRaises(t) ==
    /\ task_pc[t] = "build"
    /\ Raise(t)
    /\ UNCHANGED <<files, runs>>
    /\ Frame

\* 2. write_pivot_csv(matrix, dates, settings.pivot_csv_path)
CsvStep(t) ==
    /\ task_pc[t] = "csv"
    /\ IF CsvRowsReadable(run_local[t].table.matrix)
       THEN /\ files' = [files EXCEPT !.csv = Written("complete", run_local[t].run)]
            /\ task_pc' = [task_pc EXCEPT ![t] = "png"]
            /\ UNCHANGED run_local
       ELSE /\ files' = [files EXCEPT !.csv = Written("partial", run_local[t].run)]
            /\ Raise(t)
    /\ UNCHANGED runs
    /\ Frame

\* 2. the open file cannot be written to the end (OSError)
CsvRaises(t) ==
    /\ task_pc[t] = "csv"
    /\ files' = [files EXCEPT !.csv = Written("partial", run_local[t].run)]
    /\ Raise(t)
    /\ UNCHANGED runs
    /\ Frame

\* 3. save_heatmap_png: img = render_heatmap_image(...), which may raise;
\* then img.save(path), which completes or raises (OSError) on an open file
PngStep(t) ==
    /\ task_pc[t] = "png"
    /\ \E img \in {render_heatmap_image(run_local[t].table.matrix)} :
          \/ /\ img = ValueError
             /\ Raise(t)
             /\ UNCHANGED files
          \/ /\ img # ValueError
             /\ files' = [files EXCEPT !.png = Written("complete", run_local[t].run)]
             /\ task_pc' = [task_pc EXCEPT ![t] = "meta"]
             /\ UNCHANGED run_local
          \/ /\ img # ValueError
             /\ files' = [files EXCEPT !.png = Written("partial", run_local[t].run)]
             /\ Raise(t)
    /\ UNCHANGED runs
    /\ Frame

\* 4. json.dump(status, f); return status
MetaStep(t) ==
    /\ task_pc[t] = "meta"
    /\ files' = [files EXCEPT !.meta = Written("complete", run_local[t].run)]
    /\ task_pc' = [task_pc EXCEPT ![t] = Resume(t)]
    /\ run_local' = [run_local EXCEPT ![t] = NoRun]
    /\ UNCHANGED runs
    /\ Frame

\* 4. meta.json is opened (truncated) and json.dump raises (OSError)
MetaRaises(t) ==
    /\ task_pc[t] = "meta"
    /\ files' = [files EXCEPT !.meta = Written("partial", run_local[t].run)]
    /\ Raise(t)
    /\ UNCHANGED runs
    /\ Frame

Next ==
    \/ SchedulerStart
    \/ SchedulerWake
    \/ \E t \in Handlers : Request(t)
    \/ HeatmapServe
    \/ HeatmapRebuild
    \/ ForceRebuild
    \/ \E t \in Tasks : BuildStep(t)
    \/ \E t \in Tasks : BuildRaises(t)
    \/ \E t \in Tasks : CsvStep(t)
    \/ \E t \in Tasks : CsvRaises(t)
    \/ \E t \in Tasks : PngStep(t)
    \/ \E t \in Tasks : MetaStep(t)
    \/ \E t \in Tasks : MetaRaises(t)

Spec == Init /\ [][Next]_vars

----------------------------------------------------------------------------
(* Claims about the Minute Aggregator (checked under SpecSeries) *)

Called == arr_interp # NotCalled

\* the slots that received at least one sample
Filled == Valid(MeanArr(samples))

\* a < b are consecutive members of F: filled, every slot between them empty
Gap(F, a, b) == a + 1 < b /\ \A m \in (a + 1) .. (b - 1) : m \notin F

GapLen(a, b) == b - a - 1

\* the value of the straight line from (a, arr[a]) to (b, arr[b]) at m
LineAt(arr, a, b, m) ==
    Rat(arr[a][1] * arr[b][2] * (b - m) + arr[b][1] * arr[a][2] * (m - a),
        arr[a][2] * arr[b][2] * (b - a))

\* C1: every run of empty slots between two filled slots is filled fully
\* (each slot non-zero) when its length is <= max_gap, and is left entirely
\* 0 when its length is > max_gap.
C1_GapFullOrNone ==
    Called =>
        LET F == Filled
        IN  \A a \in F, b \in F :
                Gap(F, a, b) =>
                    IF GapLen(a, b) <= max_gap
                    THEN \A m \in (a + 1) .. (b - 1) : arr_interp[m] # Zero
                    ELSE \A m \in (a + 1) .. (b - 1) : arr_interp[m] = Zero

\* C3: with exactly one sample (value v, local minute m) and max_gap = 10 the
\* Day Vector holds v at m and 0 at each of the other 1439 slots.
C3_SingleSampleAlone ==
    (Called /\ Len(samples) = 1 /\ max_gap = DefaultMaxGap) =>
        LET m == minute_of_day(samples[1])
        IN  /\ arr_interp[m] = RInt(samples[1].hr)
            /\ \A k \in Slots \ {m} : arr_interp[k] = Zero

SamplesIn(m) == {i \in DOMAIN samples : minute_of_day(samples[i]) = m}

RECURSIVE SumHr(_)
SumHr(I) ==
    IF I = {} THEN 0
    ELSE LET i == CHOOSE j \in I : TRUE
         IN  samples[i].hr + SumHr(I \ {i})

\* arr[m] = va + (vb - va) * (m - a) / (b - a), with va = arr[a], vb = arr[b]
OnLine(arr, a, b, m) ==
    /\ arr[m][2] # 0
    /\ arr[m][1] * (arr[a][2] * arr[b][2] * (b - a)) =
           arr[m][2] * (arr[a][1] * arr[b][2] * (b - m) + arr[b][1] * arr[a][2] * (m - a))

\* C11: a slot that received samples holds the arithmetic mean of the
\* samples of its minute, and between two consecutive filled slots a < b
\* with b - a - 1 <= max_gap every slot holds exactly the value of the
\* straight line from (a, va) to (b, vb).
C11_MeanAndStraightLine ==
    Called =>
        LET F == Filled
        IN  /\ \A m \in F :
                   LET I == SamplesIn(m)
                   IN  /\ I # {} /\ arr_interp[m][2] # 0
                       /\ arr_interp[m][1] * Cardinality(I) =
                              arr_interp[m][2] * SumHr(I)
            /\ \A i \in DOMAIN samples : minute_of_day(samples[i]) \in F
            /\ \A a \in F, b \in F :
                   (Gap(F, a, b) /\ GapLen(a, b) <= max_gap) =>
                       \A m \in (a + 1) .. (b - 1) : OnLine(arr_interp, a, b, m)

\* C11, the stated case: slot 10 = 60 and slot 15 = 70 give 62, 64, 66, 68
C11_Witness ==
    /\ Called
    /\ LET F == Filled IN 10 \in F /\ 15 \in F /\ Gap(F, 10, 15)
    /\ GapLen(10, 15) <= max_gap
    /\ arr_interp[10] = RInt(60) /\ arr_interp[15] = RInt(70)
    /\ <<arr_interp[11], arr_interp[12], arr_interp[13], arr_interp[14]>> =
           <<RInt(62), RInt(64), RInt(66), RInt(68)>>

\* C11: a minute with two samples, 70 and 72, holds their mean 71
C11_WitnessMean ==
    /\ Called
    /\ Cardinality(SamplesIn(15)) = 2
    /\ SumHr(SamplesIn(15)) = 142
    /\ arr_interp[15] = RInt(71)

----------------------------------------------------------------------------
(* Claims about the Day Table (checked under SpecTable) *)

AllZero(col) == \A m \in Slots : col[m] = Zero

Column(mat, i) == [m \in DOMAIN mat |-> mat[m][i]]

\* C4: for a request of N trailing days the returned matrix has exactly 1440
\* rows and N columns, the date list is the N dates of the window, strictly
\* ascending, column i is the Day Vector of date i, a date without samples
\* is kept as an all-zero column, and N = 0 gives 1440 rows, no column and
\* no date.
C4_TableShapeAndOrder ==
    table_pc = "returned" =>
        LET N == settings.trailing_days
            dates == table.dates
            mat == table.matrix
        IN  /\ DOMAIN mat = Slots
            /\ \A m \in Slots : Len(mat[m]) = N
            /\ Len(dates) = N
            /\ \A i \in 1 .. N : dates[i] = today - N + i
            /\ \A i \in 1 .. (N - 1) : dates[i] < dates[i + 1]
            /\ \A i \in 1 .. N :
                   LET smp == fetch_daily_hr(garmin[dates[i]])
                   IN  /\ Column(mat, i) =
                              build_daily_minute_series(smp, DefaultMaxGap)
                       /\ smp = <<>> => AllZero(Column(mat, i))
            /\ N = 0 => dates = <<>>

\* C4: a returned table of two or more days, one of them without samples and
\* one with samples
C4_Witness ==
    /\ table_pc = "returned"
    /\ settings.trailing_days >= 2
    /\ Len(table.dates) = settings.trailing_days
    /\ \E i, j \in 1 .. Len(table.dates) :
           /\ garmin[table.dates[i]] = <<>>
           /\ AllZero(Column(table.matrix, i))
           /\ ~AllZero(Column(table.matrix, j))

----------------------------------------------------------------------------
(* Claims about the Color Scale Resolver (checked under SpecScale) *)

BothOverrides == settings.hr_min # None /\ settings.hr_max # None

\* the values > 0 of the matrix
Positive(mat) ==
    {mat[rc[1]][rc[2]] : rc \in Cells(mat)} \ ({NaN} \cup {v \in {mat[rc[1]][rc[2]] : rc \in Cells(mat)} : v[2] # 0 /\ v[1] <= 0})

\* C2: with hr_min and hr_max both configured the returned Color Scale is
\* (hr_min, hr_max) for every matrix, also one without any value > 0 and one
\* without columns.
C2_OverrideAlwaysWins ==
    (scale # NotCalled /\ BothOverrides) =>
        scale = <<settings.hr_min[1], settings.hr_max[1]>>

\* C5: without the override low < high strictly; a matrix without a value
\* > 0 gives (0, 1) and a matrix whose values > 0 are all v gives
\* (v - 1, v + 1).
C5_ScaleStrictlyOrdered ==
    (scale # NotCalled /\ ~BothOverrides) =>
        LET pos == Positive(matrix)
        IN  /\ ~IsNaN(scale[1]) /\ ~IsNaN(scale[2])
            /\ RLess(scale[1], scale[2])
            /\ pos = {} => scale = <<Zero, RInt(1)>>
            /\ \A v \in pos :
                   pos = {v} => scale = <<RSub(v, RInt(1)), RAdd(v, RInt(1))>>

\* C5: the scale of a matrix whose values > 0 are all 70 was widened
C5_Witness ==
    /\ scale # NotCalled /\ ~BothOverrides
    /\ Positive(matrix) = {RInt(70)}
    /\ scale = <<RInt(69), RInt(71)>>

\* the percentiles coincide although the data is not flat: true min and max
C5_WitnessMinMax ==
    /\ scale # NotCalled /\ ~BothOverrides
    /\ Positive(matrix) = {RInt(50), RInt(70), RInt(190)}
    /\ scale = <<RInt(50), RInt(190)>>

----------------------------------------------------------------------------
(* Claims about the Rasterizer (checked under SpecRender) *)

Rendered == image # NotCalled /\ image # ValueError

\* a 1440 x N matrix, N >= 1, whose every entry is 0
AllZeroTable(mat) ==
    /\ DOMAIN mat = Slots /\ NCols(mat) >= 1
    /\ \A r \in Slots : \A c \in 1 .. Len(mat[r]) : mat[r][c] = Zero

Pixels(img) == (0 .. (img.size[1] - 1)) \X (0 .. (img.size[2] - 1))

\* the rows and columns of the separators the configuration asks for
SeparatorRows ==
    IF settings.draw_hour_lines
    THEN {HourLineY(h, settings.image_height) : h \in 0 .. 24}
    ELSE {}

SeparatorCols ==
    IF settings.draw_day_lines /\ NCols(matrix) > 1
    THEN {DayLineX(i, settings.image_width, NCols(matrix)) :
             i \in 1 .. (NCols(matrix) - 1)}
    ELSE {}

\* C6: the image of an all-zero 1440 x N matrix is black at every pixel,
\* whatever the gradient, the output size and the two draw_*_lines settings.
C6_AllZeroAllBlack ==
    (Rendered /\ AllZeroTable(matrix)) =>
        \A p \in Pixels(image) : getpixel(image, p[1], p[2]) = Black

\* C6 as amended: the image of an all-zero 1440 x N matrix is black at every
\* pixel that is not on an enabled hour or day separator, and white on the
\* separators; with both draw_*_lines settings off every pixel is black.
C6_AllZeroBlackOffSeparators ==
    (Rendered /\ AllZeroTable(matrix)) =>
        \A rows \in {SeparatorRows} : \A cols \in {SeparatorCols} :
            /\ (~settings.draw_hour_lines /\ ~settings.draw_day_lines)
                   => rows = {} /\ cols = {}
            /\ \A p \in Pixels(image) :
                   getpixel(image, p[1], p[2]) =
                       IF p[2] \in rows \/ p[1] \in cols THEN White ELSE Black

\* C6: an all-zero matrix rendered with both separators off
C6_Witness ==
    /\ Rendered /\ AllZeroTable(matrix)
    /\ ~settings.draw_hour_lines /\ ~settings.draw_day_lines
    /\ settings.colormap \in CatppuccinNames
    /\ \A p \in Pixels(image) : getpixel(image, p[1], p[2]) = Black

\* C7: with the output size (920, 1440), N = 92 and draw_hour_lines on, the
\* image is 920 x 1440 and the 25 positions round(h*H/24), h = 0..24, are 25
\* distinct rows of the image, row 0 and row H - 1 among them, each painted
\* as a separator.
C7_TwentyFiveHourRows ==
    (Rendered /\ settings.image_width = 920 /\ settings.image_height = 1440
        /\ NCols(matrix) = 92 /\ settings.draw_hour_lines) =>
        LET H == image.size[2]
            rows == {HourLineY(h, H) : h \in 0 .. 24}
        IN  /\ image.size = <<920, 1440>>
            /\ Cardinality(rows) = 25
            /\ \A y \in rows : y \in 0 .. (H - 1) /\ getpixel(image, 0, y) = White
            /\ 0 \in rows /\ (H - 1) \in rows

----------------------------------------------------------------------------
(* Claims about the service (checked under Spec) *)

InRun(t) == task_pc[t] \in PipelineSteps

\* C9: at most one run_full_pipeline execution is in progress at any time,
\* whichever of the scheduler, GET /heatmap.png and POST /force-rebuild
\* started it, so no two runs write the artifacts at the same time.
C9_RunsSerialised ==
    \A t \in Tasks, u \in Tasks : (InRun(t) /\ InRun(u)) => t = u

\* C9: a run is in progress while the requests of both endpoints are waiting
\* for the loop and the scheduler's run has been done
C9_Witness ==
    /\ InRun("rebuild")
    /\ task_pc["heatmap"] = "pending"
    /\ task_pc["scheduler"] = "sleep"
    /\ files.png = Absent

\* every matrix a run hands to write_pivot_csv and save_heatmap_png has
\* exactly 1440 rows
RunMatrixHas1440Rows ==
    \A t \in Tasks :
        task_pc[t] \in {"csv", "png", "meta"} =>
            DOMAIN run_local[t].table.matrix = Slots


\* the artifacts a step leaves alone
Untouched(names) == \A n \in names : files'[n] = files[n]

\* one step of the service, seen from the three artifacts
ArtifactStep ==
    /\ files'.csv # files.csv =>
           \E t \in Tasks :
               /\ task_pc[t] = "csv"
               /\ files'.csv.run = run_local[t].run
               /\ files.png.run # run_local[t].run
               /\ files.meta.run # run_local[t].run
               /\ Untouched({"png", "meta"})
    /\ files'.png # files.png =>
           \E t \in Tasks :
               /\ task_pc[t] = "png"
               /\ files.csv = Written("complete", run_local[t].run)
               /\ files'.png.run = run_local[t].run
               /\ files.meta.run # run_local[t].run
               /\ Untouched({"csv", "meta"})
    /\ files'.meta # files.meta =>
           \E t \in Tasks :
               /\ task_pc[t] = "meta"
               /\ files.csv = Written("complete", run_local[t].run)
               /\ files.png = Written("complete", run_local[t].run)
               /\ files'.meta.run = run_local[t].run
               /\ Untouched({"csv", "png"})
    /\ \A t \in Tasks :
           (task_pc[t] \in {"build", "csv", "png"} /\ ~InRun(t)') =>
               /\ Untouched({"meta"})
               /\ load_status(files'.meta) = load_status(files.meta)
    /\ (InRun("scheduler") /\ ~InRun("scheduler")') =>
           task_pc'["scheduler"] = "sleep"

\* C12: a run writes the CSV, then the PNG, then meta.json; meta.json is
\* written only by a run whose CSV and PNG writes completed; a run that
\* fails in the fetch, the table, the CSV or the rendering leaves meta.json
\* and the status load_status reports as they were; and a run that raised
\* leaves the scheduler loop in its sleep, from where it runs again.
C12_ArtifactOrder == [][ArtifactStep]_vars

\* C12: run 1 failed while saving the PNG, meta.json still holds what the
\* last successful run wrote, and the scheduler is at the PNG step of a later
\* run, whose CSV is complete
C12_Witness ==
    /\ task_pc["scheduler"] = "png"
    /\ run_local["scheduler"].run = MaxRuns
    /\ files.meta = Written("complete", 0)
    /\ load_status(files.meta) = [last_run |-> <<0>>]
    /\ files.png = Written("partial", 1)
    /\ files.csv = Written("complete", MaxRuns)

=============================================================================
